---- MODULE Spec2Model ----
(***************************************************************************)
(* A model of weather-cli (src/src/weather.py): one run of main(), and the *)
(* forecast aggregation of fetch_forecast (lines 99-128) applied to        *)
(* bounded lists of forecast samples.                                      *)
(*                                                                         *)
(* Numbers: a temperature or a wind speed is an integer number of tenths   *)
(* (152 is 15.2); an epoch timestamp counts time slots, SlotsPerDay of     *)
(* them to a calendar day.  An optional value (None or a value) is a       *)
(* sequence of length 0 or 1.                                              *)
(***************************************************************************)
EXTENDS Integers, Sequences, FiniteSets, TLC

VARIABLES
    pc,         \* where the run is: main, fetch, status, raise, json, loop, print, done, exited
    args,       \* argparse's result: [forecast, units]
    envKey,     \* os.environ.get("OPENWEATHER_API_KEY"): <<>> when absent
    apiKey,     \* main's api_key, once get_api_key has returned
    requests,   \* the number of requests.get calls issued
    response,   \* the response of requests.get, once received
    list,       \* the items of data["list"] the first loop has consumed
    daily,      \* fetch_forecast's dict, as its entries in insertion order
    forecasts,  \* the list fetch_forecast returned
    weather,    \* the record fetch_current_weather returned
    stdout,     \* the reports printed
    stderr,     \* the messages written to the error stream
    exitCode,   \* the process's exit status, once it has ended
    again       \* the result of aggregating the returned summaries once more

vars == <<pc, args, envKey, apiKey, requests, response, list, daily,
          forecasts, weather, stdout, stderr, exitCode, again>>

(***************************************************************************)
(* Bounds and program constants.                                           *)
(***************************************************************************)
MaxList == 6        \* longest sample list over WideFeed
MaxDayList == 3     \* longest sample list over DayFeed
MaxMainList == 2    \* longest sample list in a whole run of main
ForecastDays == 5   \* forecasts[:5]
SlotsPerDay == 2    \* time slots in one calendar day

Units == {"metric", "imperial"}
Temps == {-25, 140}
Descriptions == {"light rain", "Broken Clouds"}
Statuses == {200, 300, 401, 403, 404, 500}
Bodies == {"ok", "malformed"}
EnvValues == {<<>>, <<"">>, <<"k1">>}

Min2(a, b) == IF a <= b THEN a ELSE b
Range(s) == {s[i] : i \in DOMAIN s}

Sample(dt, temp, description) ==
    [dt |-> dt, temp |-> temp, description |-> description]

\* One reading for each of ForecastDays + 1 calendar days, and a second reading
\* for the first of them.
WideFeed ==
    {Sample(d * SlotsPerDay + (d % SlotsPerDay),
            IF d % 2 = 0 THEN -25 ELSE 140,
            IF d % 3 = 0 THEN "light rain" ELSE "Broken Clouds") : d \in 0..ForecastDays}
    \cup {Sample(1, 140, "Broken Clouds")}

\* Every reading at each time of one calendar day and at the first time of the
\* next.
DayFeed ==
    {Sample(dt, t, d) : dt \in 0..SlotsPerDay, t \in Temps, d \in Descriptions}

InFeed(l, feed, max) == Len(l) <= max /\ \A i \in 1..Len(l) : l[i] \in feed

\* No sample twice: the provider's series holds each timestamp once.
NoRepeat(l) == \A i, j \in 1..Len(l) : i # j => l[i] # l[j]

(***************************************************************************)
(* fetch_forecast, lines 99-128: the aggregation.                          *)
(***************************************************************************)
\* datetime.fromtimestamp: the local calendar day and the time within it.
FromTimestamp(ts) == [day |-> ts \div SlotsPerDay, slot |-> ts % SlotsPerDay]

\* datetime.timestamp, the inverse conversion.
ToTimestamp(dtm) == dtm.day * SlotsPerDay + dtm.slot

\* A key that keeps the time of day, as strftime("%Y-%m-%d %H") would.
DayKeyHour(dtm) == <<dtm.day, dtm.slot>>

\* dt.strftime("%Y-%m-%d")
DayKey(dtm) == <<dtm.day>>

HasKey(dly, k) == \E i \in 1..Len(dly) : dly[i].key = k

\* One pass of the first loop's body.
GroupStep(dly, item) ==
    LET dt == FromTimestamp(item.dt)
        day_key == DayKey(dt)
        d1 == IF HasKey(dly, day_key)
              THEN dly
              ELSE Append(dly, [key |-> day_key, date |-> dt,
                                temps |-> <<>>, descriptions |-> <<>>])
    IN [i \in 1..Len(d1) |->
          IF d1[i].key = day_key
          THEN [d1[i] EXCEPT !.temps = Append(@, item.temp),
                             !.descriptions = Append(@, item.description)]
          ELSE d1[i]]

RECURSIVE Group(_)
Group(l) == IF l = <<>> THEN <<>>
            ELSE GroupStep(Group(SubSeq(l, 1, Len(l) - 1)), l[Len(l)])

\* min(temps) and max(temps): the first extreme element of a left-to-right scan.
RECURSIVE MinOf(_)
MinOf(s) == IF Len(s) = 1 THEN s[1]
            ELSE LET m == MinOf(SubSeq(s, 1, Len(s) - 1))
                 IN IF s[Len(s)] < m THEN s[Len(s)] ELSE m

RECURSIVE MaxOf(_)
MaxOf(s) == IF Len(s) = 1 THEN s[1]
            ELSE LET m == MaxOf(SubSeq(s, 1, Len(s) - 1))
                 IN IF s[Len(s)] > m THEN s[Len(s)] ELSE m

\* The first temperature of the group taken for its minimum.
TempMinFirst(temps) == temps[1]

TempMin(temps) == MinOf(temps)
TempMax(temps) == MaxOf(temps)

\* list.count
Count(s, x) == Cardinality({i \in DOMAIN s : s[i] = x})

\* max(iterable, key=...): the first element of the iteration with the greatest key.
RECURSIVE MaxByCount(_, _)
MaxByCount(order, descs) ==
    IF Len(order) = 1 THEN order[1]
    ELSE LET best == MaxByCount(SubSeq(order, 1, Len(order) - 1), descs)
             x == order[Len(order)]
         IN IF Count(descs, x) > Count(descs, best) THEN x ELSE best

\* The orders in which a set may be iterated.
Orders(S) == {o \in [1..Cardinality(S) -> S] : Range(o) = S}

\* max(set(descriptions)) with the key left out of account: any description.
MostCommonAny(descs) == Range(descs)

\* max(set(descriptions), key=descriptions.count), for every iteration order of
\* the set (the order of a set of strings depends on the process's hash seed).
MostCommon(descs) == {MaxByCount(o, descs) : o \in Orders(Range(descs))}

\* The Forecast record the second loop builds of one entry.
Summary(day_data, desc) ==
    [date |-> day_data.date,
     temp_min |-> TempMin(day_data.temps),
     temp_max |-> TempMax(day_data.temps),
     description |-> desc]

\* The entries in the order of their keys, as sorted(daily.items()) would give.
RECURSIVE SortedByKey(_)
SortedByKey(dly) ==
    IF dly = <<>> THEN <<>>
    ELSE LET i == CHOOSE i \in 1..Len(dly) :
                      \A j \in 1..Len(dly) : dly[i].key[1] <= dly[j].key[1]
         IN <<dly[i]>> \o SortedByKey(SelectSeq(dly, LAMBDA e : e.key # dly[i].key))

\* daily.values(): the entries in insertion order.
Values(dly) == dly

\* The second loop, lines 115-126: the lists it may build, one per choice among
\* tied descriptions.
RECURSIVE SecondLoop(_)
SecondLoop(vs) ==
    IF vs = <<>> THEN {<<>>}
    ELSE LET day_data == vs[Len(vs)]
         IN {Append(fs, Summary(day_data, desc)) :
               fs \in SecondLoop(SubSeq(vs, 1, Len(vs) - 1)),
               desc \in MostCommon(day_data.descriptions)}

Summaries(dly) == SecondLoop(Values(dly))

\* The slices forecasts[1:6] and forecasts[:6], one place off.
TruncateSkipFirst(fs) == SubSeq(fs, 2, Min2(ForecastDays + 1, Len(fs)))
TruncateOneMore(fs) == SubSeq(fs, 1, Min2(ForecastDays + 1, Len(fs)))

\* forecasts[:5]
Truncate(fs) == SubSeq(fs, 1, Min2(ForecastDays, Len(fs)))

\* Every list lines 99-128 may return for the samples l.
Aggregations(l) == {Truncate(fs) : fs \in Summaries(Group(l))}

(***************************************************************************)
(* format_weather and format_forecast, lines 131-161.  A report is its     *)
(* lines; a line is the pieces of its f-string, literal text and           *)
(* substituted values, in order (the printed line is their concatenation). *)
(***************************************************************************)
Abs(n) == IF n < 0 THEN -n ELSE n

\* f"{x:.1f}" of a value given in tenths.
Fmt1(x) == (IF x < 0 THEN "-" ELSE "") \o ToString(Abs(x) \div 10) \o "."
               \o ToString(Abs(x) % 10)

\* f"{x:5.1f}": the same, padded on the left to five characters.
Fmt51(x) ==
    LET width == (IF x < 0 THEN 1 ELSE 0) + (IF Abs(x) >= 1000 THEN 5
                    ELSE IF Abs(x) >= 100 THEN 4 ELSE 3)
        pad == [n \in 0..2 |-> IF n = 0 THEN "" ELSE IF n = 1 THEN " " ELSE "  "]
    IN (IF width >= 5 THEN "" ELSE pad[5 - width]) \o Fmt1(x)

\* str.capitalize: the first character in upper case, the others in lower case.
Capitalize(d) ==
    CASE d = "light rain" -> "Light rain"
      [] d = "Broken Clouds" -> "Broken clouds"

\* The temperature unit with the selector ignored.
TempUnitAlwaysC(units) == "°C"

\* "°C" if units == "metric" else "°F"
TempUnit(units) == IF units = "metric" THEN "°C" ELSE "°F"

\* "m/s" if units == "metric" else "mph"
SpeedUnit(units) == IF units = "metric" THEN "m/s" ELSE "mph"

Rule(n) == <<"rule", ToString(n)>>

\* strftime('%Y-%m-%d %H:%M') and strftime("%a %b %d")
StrftimeMinute(dtm) == "day " \o ToString(dtm.day) \o " slot " \o ToString(dtm.slot)
StrftimeDay(dtm) == "day " \o ToString(dtm.day)

format_weather(w, units) ==
    LET temp_unit == TempUnit(units)
        speed_unit == SpeedUnit(units)
    IN << <<"Weather for ", w.city, ", ", w.country>>,
          Rule(40),
          <<"Temperature:  ", Fmt1(w.temp), temp_unit, " (feels like ",
            Fmt1(w.feels_like), temp_unit, ")">>,
          <<"Conditions:   ", Capitalize(w.description)>>,
          <<"Humidity:     ", ToString(w.humidity), "%">>,
          <<"Wind:         ", Fmt1(w.wind_speed), " ", speed_unit>>,
          Rule(40),
          <<"Updated: ", StrftimeMinute(w.timestamp)>> >>

format_forecast(fs, city, units) ==
    LET temp_unit == TempUnit(units)
    IN << <<"5-Day Forecast for ", city>>, Rule(50) >> \o
       [i \in 1..Len(fs) |->
          <<StrftimeDay(fs[i].date), "  ", Fmt51(fs[i].temp_min), temp_unit, " - ",
            Fmt51(fs[i].temp_max), temp_unit, "  ", Capitalize(fs[i].description)>>]

(***************************************************************************)
(* The provider's answers and the records built of them.                   *)
(***************************************************************************)
Responses == [status : Statuses, body : Bodies]

Weathers ==
    [city : {"London"}, country : {"GB"}, temp : Temps, feels_like : Temps,
     humidity : {72}, description : Descriptions, wind_speed : {35},
     timestamp : {FromTimestamp(3)}]

City == "London"

(***************************************************************************)
(* The steps of one run of main, lines 164-190.                            *)
(***************************************************************************)
\* An uncaught exception: the traceback goes to the error stream, status 1.
Raise(what) ==
    /\ stderr' = Append(stderr, "Traceback: " \o what)
    /\ exitCode' = <<1>>
    /\ pc' = "exited"

\* print(..., file=sys.stderr); sys.exit(), which ends with status 0.
ErrorExitZero(msg) ==
    /\ stderr' = Append(stderr, msg)
    /\ exitCode' = <<0>>
    /\ pc' = "exited"

\* print(..., file=sys.stderr); sys.exit(1)
ErrorExit(msg) ==
    /\ stderr' = Append(stderr, msg)
    /\ exitCode' = <<1>>
    /\ pc' = "exited"

\* `not key`: the variable is absent or empty.
NotKey(key) == key = <<>> \/ key[1] = ""

\* get_api_key without its sys.exit(1): the message is printed and the value of
\* the variable, or None, is returned.
GetApiKeyNoExit ==
    /\ pc = "main"
    /\ IF NotKey(envKey)
       THEN /\ stderr' = Append(stderr, "Error: OPENWEATHER_API_KEY environment variable not set")
       ELSE stderr' = stderr
    /\ apiKey' = envKey
    /\ pc' = "fetch"
    /\ UNCHANGED <<args, envKey, requests, response, list, daily, forecasts,
                   weather, stdout, exitCode, again>>

\* main, lines 181-183, and get_api_key, lines 43-50.
GetApiKey ==
    /\ pc = "main"
    /\ IF NotKey(envKey)
       THEN /\ ErrorExit("Error: OPENWEATHER_API_KEY environment variable not set")
            /\ apiKey' = apiKey
       ELSE /\ apiKey' = envKey
            /\ pc' = "fetch"
            /\ UNCHANGED <<stderr, exitCode>>
    /\ UNCHANGED <<args, envKey, requests, response, list, daily, forecasts,
                   weather, stdout, again>>

\* requests.get(url, params=params, timeout=10), lines 58 and 87: a response, or
\* an exception of the transport (no connection, a timeout).
Request ==
    /\ pc = "fetch"
    /\ requests' = requests + 1
    /\ \/ \E r \in Responses :
            /\ response' = <<r>>
            /\ pc' = "status"
            /\ UNCHANGED <<stderr, exitCode>>
       \/ /\ Raise("requests.RequestException")
          /\ response' = response
    /\ UNCHANGED <<args, envKey, apiKey, list, daily, forecasts, weather, stdout, again>>

\* The status checks of lines 60-65 and 89-94.
CheckStatus ==
    /\ pc = "status"
    /\ IF response[1].status = 404
       THEN ErrorExit("Error: City not found")
       ELSE IF response[1].status = 401
       THEN ErrorExit("Error: Invalid API key")
       ELSE /\ pc' = "raise"
            /\ UNCHANGED <<stderr, exitCode>>
    /\ UNCHANGED <<args, envKey, apiKey, requests, response, list, daily, forecasts,
                   weather, stdout, again>>

\* A check that raises for a server error (5xx) alone.
IsErrorStatusServerOnly(status) == 500 <= status /\ status < 600

\* Response.raise_for_status raises for a client error (4xx) or a server error (5xx).
IsErrorStatus(status) == 400 <= status /\ status < 600

\* response.raise_for_status(), lines 67 and 96.
RaiseForStatus ==
    /\ pc = "raise"
    /\ IF IsErrorStatus(response[1].status)
       THEN Raise("requests.HTTPError")
       ELSE /\ pc' = "json"
            /\ UNCHANGED <<stderr, exitCode>>
    /\ UNCHANGED <<args, envKey, apiKey, requests, response, list, daily, forecasts,
                   weather, stdout, again>>

\* response.json() and, in fetch_current_weather, the record of lines 70-79; in
\* fetch_forecast, the empty dict of line 100.  A body that is no JSON, or lacks
\* a field, raises.
ParseJson ==
    /\ pc = "json"
    /\ IF response[1].body = "malformed"
       THEN /\ Raise("JSONDecodeError or KeyError")
            /\ UNCHANGED <<weather, daily>>
       ELSE /\ UNCHANGED <<stderr, exitCode>>
            /\ IF args.forecast
               THEN /\ daily' = <<>>
                    /\ pc' = "loop"
                    /\ weather' = weather
               ELSE /\ \E w \in Weathers : weather' = <<w>>
                    /\ pc' = "print"
                    /\ daily' = daily
    /\ UNCHANGED <<args, envKey, apiKey, requests, response, list, forecasts,
                   stdout, again>>

\* The first loop, lines 101-113, taking the next item of data["list"].
ForItem(item) ==
    /\ pc = "loop"
    /\ list' = Append(list, item)
    /\ daily' = GroupStep(daily, item)
    /\ UNCHANGED <<pc, args, envKey, apiKey, requests, response, forecasts, weather,
                   stdout, stderr, exitCode, again>>

\* data["list"] is exhausted: the second loop, lines 115-126, and the return of
\* line 128.
Summarise ==
    /\ pc = "loop"
    /\ \E fs \in Summaries(daily) : forecasts' = Truncate(fs)
    /\ pc' = "print"
    /\ UNCHANGED <<args, envKey, apiKey, requests, response, list, daily, weather,
                   stdout, stderr, exitCode, again>>

\* main, lines 187 and 190: the report is formatted and printed, and main returns.
PrintReport ==
    /\ pc = "print"
    /\ stdout' = Append(stdout,
                        IF args.forecast
                        THEN format_forecast(forecasts, City, args.units)
                        ELSE format_weather(weather[1], args.units))
    /\ exitCode' = <<0>>
    /\ pc' = "done"
    /\ UNCHANGED <<args, envKey, apiKey, requests, response, list, daily, forecasts,
                   weather, stderr, again>>

\* The returned summaries read as samples, one per summary, each carrying the
\* summary's date and description and one of its two temperatures.
AsSamples(fs, pick) ==
    [i \in 1..Len(fs) |->
       Sample(ToTimestamp(fs[i].date),
              IF pick = "temp_min" THEN fs[i].temp_min ELSE fs[i].temp_max,
              fs[i].description)]

\* The aggregation applied to its own result.
ReAggregate ==
    /\ pc = "print"
    /\ again = <<>>
    /\ \E pick \in {"temp_min", "temp_max"} :
         \E out \in Aggregations(AsSamples(forecasts, pick)) :
            again' = <<[fed |-> AsSamples(forecasts, pick), out |-> out]>>
    /\ UNCHANGED <<pc, args, envKey, apiKey, requests, response, list, daily,
                   forecasts, weather, stdout, stderr, exitCode>>

(***************************************************************************)
(* Spec: one run of main.                                                  *)
(***************************************************************************)
Init ==
    /\ pc = "main"
    /\ args \in [forecast : BOOLEAN, units : Units]
    /\ envKey \in EnvValues
    /\ apiKey = <<>>
    /\ requests = 0
    /\ response = <<>>
    /\ list = <<>>
    /\ daily = <<>>
    /\ forecasts = <<>>
    /\ weather = <<>>
    /\ stdout = <<>>
    /\ stderr = <<>>
    /\ exitCode = <<>>
    /\ again = <<>>

Next ==
    \/ GetApiKey
    \/ Request
    \/ CheckStatus
    \/ RaiseForStatus
    \/ ParseJson
    \/ \E item \in DayFeed : ForItem(item) /\ InFeed(list', DayFeed, MaxMainList)
    \/ Summarise
    \/ PrintReport

Spec == Init /\ [][Next]_vars

(***************************************************************************)
(* SpecAgg: the aggregation of fetch_forecast on bounded sample lists: the *)
(* state after line 100 of a forecast run, the two loops, and the          *)
(* aggregation applied once more to what it returned.                      *)
(***************************************************************************)
InitAgg ==
    /\ pc = "loop"
    /\ args = [forecast |-> TRUE, units |-> "metric"]
    /\ envKey = <<"k1">>
    /\ apiKey = <<"k1">>
    /\ requests = 1
    /\ response = <<[status |-> 200, body |-> "ok"]>>
    /\ list = <<>>
    /\ daily = <<>>
    /\ forecasts = <<>>
    /\ weather = <<>>
    /\ stdout = <<>>
    /\ stderr = <<>>
    /\ exitCode = <<>>
    /\ again = <<>>

NextAgg ==
    \/ \E item \in WideFeed :
          ForItem(item) /\ InFeed(list', WideFeed, MaxList) /\ NoRepeat(list')
    \/ \E item \in DayFeed : ForItem(item) /\ InFeed(list', DayFeed, MaxDayList)
    \/ Summarise
    \/ ReAggregate

SpecAgg == InitAgg /\ [][NextAgg]_vars

(***************************************************************************)
(* The vocabulary of the properties, stated of the samples consumed (list) *)
(* and not of the dict the code builds.                                    *)
(***************************************************************************)
\* The calendar date of a timestamp, and of a summary.
CalendarDate(ts) == ts \div SlotsPerDay
DateOf(f) == f.date.day

\* The calendar dates among the samples, and the samples of one date.
Dates == {CalendarDate(list[k].dt) : k \in 1..Len(list)}
SamplesOn(date) == {k \in 1..Len(list) : CalendarDate(list[k].dt) = date}
TempsOn(date) == {list[k].temp : k \in SamplesOn(date)}
CountOn(date, desc) == Cardinality({k \in SamplesOn(date) : list[k].description = desc})

\* The place of the first sample of a date.
FirstIndex(date) ==
    CHOOSE k \in 1..Len(list) :
        /\ CalendarDate(list[k].dt) = date
        /\ \A m \in 1..(k - 1) : CalendarDate(list[m].dt) # date

\* The samples are in ascending time order.
Ascending == \A k \in 1..(Len(list) - 1) : list[k].dt <= list[k + 1].dt

\* fetch_forecast has returned its list.
Returned == pc = "print"

\* C1: the returned list has exactly min(5, number of distinct calendar dates)
\* summaries, and they are the summaries of the first groups in emission order.
C1_Length ==
    Returned =>
        /\ Len(forecasts) = Min2(5, Cardinality(Dates))
        /\ Len(forecasts) <= 5
        /\ Len(forecasts) <= Cardinality(Dates)
        /\ \A i \in 1..Len(forecasts) : forecasts[i].date = daily[i].date

C1_Witness ==
    /\ Returned
    /\ Cardinality(Dates) = 6
    /\ Len(forecasts) = 5

\* C2: temp_min is the minimum and temp_max the maximum of the temperatures of
\* the samples of the summary's date; so temp_min <= temp_max, both occur among
\* them, and a date with one sample has both equal to its temperature.
C2_MinMax ==
    Returned =>
        \A i \in 1..Len(forecasts) :
            LET ts == TempsOn(DateOf(forecasts[i]))
            IN /\ forecasts[i].temp_min \in ts
               /\ forecasts[i].temp_max \in ts
               /\ \A t \in ts : forecasts[i].temp_min <= t /\ t <= forecasts[i].temp_max
               /\ forecasts[i].temp_min <= forecasts[i].temp_max
               /\ \A k \in SamplesOn(DateOf(forecasts[i])) :
                     SamplesOn(DateOf(forecasts[i])) = {k} =>
                        /\ forecasts[i].temp_min = list[k].temp
                        /\ forecasts[i].temp_max = list[k].temp

C2_Witness ==
    /\ Returned
    /\ \E i \in 1..Len(forecasts) :
          /\ Cardinality(SamplesOn(DateOf(forecasts[i]))) >= 2
          /\ forecasts[i].temp_min < forecasts[i].temp_max
          /\ list[FirstIndex(DateOf(forecasts[i]))].temp = forecasts[i].temp_max
    /\ \E i \in 1..Len(forecasts) : Cardinality(SamplesOn(DateOf(forecasts[i]))) = 1

\* C3 as stated: for every list of samples, the returned summaries are in
\* ascending order of date, no date twice.
C3_Original ==
    Returned =>
        \A i, j \in 1..Len(forecasts) :
            i < j => DateOf(forecasts[i]) < DateOf(forecasts[j])

\* C3, amended: for every list of samples no date appears twice among the
\* returned summaries; for every list in ascending time order they are in
\* ascending order of date.
C3_Amended ==
    Returned =>
        /\ \A i, j \in 1..Len(forecasts) :
              i # j => DateOf(forecasts[i]) # DateOf(forecasts[j])
        /\ Ascending =>
              \A i, j \in 1..Len(forecasts) :
                  i < j => DateOf(forecasts[i]) < DateOf(forecasts[j])

C3_Witness ==
    /\ Returned
    /\ Ascending
    /\ Len(forecasts) >= 3
    /\ Cardinality(SamplesOn(DateOf(forecasts[1]))) = 2

\* C4: a summary's description occurs among the samples of its date, and no
\* description occurs among them more often.
C4_Modal ==
    Returned =>
        \A i \in 1..Len(forecasts) :
            /\ CountOn(DateOf(forecasts[i]), forecasts[i].description) >= 1
            /\ \A d \in Descriptions :
                  CountOn(DateOf(forecasts[i]), d)
                     <= CountOn(DateOf(forecasts[i]), forecasts[i].description)

C4_Witness ==
    /\ Returned
    /\ \E i \in 1..Len(forecasts) : \E d \in Descriptions :
          /\ CountOn(DateOf(forecasts[i]), forecasts[i].description) = 2
          /\ CountOn(DateOf(forecasts[i]), d) = 1
          /\ list[FirstIndex(DateOf(forecasts[i]))].description = d

\* The aggregation has been applied to its own result.
ReAggregated == again # <<>>

\* C8 as stated: the summaries read as samples, one per summary, aggregate to
\* the same summaries.
C8_Original == ReAggregated => again[1].out = forecasts

\* C8, amended: they aggregate to summaries of the same dates in the same order
\* and the same descriptions, each with temp_min and temp_max both equal to the
\* one temperature its sample carried; the temperatures are those of the first
\* aggregation where that one had temp_min = temp_max.
C8_Amended ==
    ReAggregated =>
        LET fed == again[1].fed
            out == again[1].out
        IN /\ Len(out) = Len(forecasts)
           /\ \A i \in 1..Len(out) :
                 /\ out[i].date = forecasts[i].date
                 /\ out[i].description = forecasts[i].description
                 /\ out[i].temp_min = fed[i].temp
                 /\ out[i].temp_max = fed[i].temp
                 /\ fed[i].temp \in {forecasts[i].temp_min, forecasts[i].temp_max}
                 /\ forecasts[i].temp_min = forecasts[i].temp_max
                       => out[i] = forecasts[i]

C8_Witness ==
    /\ ReAggregated
    /\ Len(forecasts) >= 2
    /\ \E i \in 1..Len(forecasts) : forecasts[i].temp_min < forecasts[i].temp_max
    /\ \E i \in 1..Len(forecasts) : forecasts[i].temp_min = forecasts[i].temp_max
    /\ again[1].out # forecasts

\* C9: the groups are emitted in the order in which the first sample of each
\* date was met, whatever the order of the samples (the summaries' dates are in
\* the order of their first samples, and a date left out was first met after
\* the five returned), and a group holds exactly the samples of one date.
C9_EmissionOrder ==
    /\ pc \in {"loop", "print"} =>
          /\ {daily[i].date.day : i \in 1..Len(daily)} = Dates
          /\ Len(daily) = Cardinality(Dates)
          /\ \A i \in 1..Len(daily) :
                LET on == SelectSeq(list, LAMBDA x : CalendarDate(x.dt) = daily[i].date.day)
                IN /\ daily[i].temps = [k \in 1..Len(on) |-> on[k].temp]
                   /\ daily[i].descriptions = [k \in 1..Len(on) |-> on[k].description]
                   /\ daily[i].date = FromTimestamp(on[1].dt)
    /\ Returned =>
          /\ \A i \in 1..(Len(forecasts) - 1) :
                FirstIndex(DateOf(forecasts[i])) < FirstIndex(DateOf(forecasts[i + 1]))
          /\ \A d \in Dates :
                (\A i \in 1..Len(forecasts) : DateOf(forecasts[i]) # d) =>
                    /\ Len(forecasts) = 5
                    /\ FirstIndex(DateOf(forecasts[5])) < FirstIndex(d)

C9_Witness ==
    /\ Returned
    /\ ~Ascending
    /\ Len(forecasts) >= 3
    /\ DateOf(forecasts[1]) > DateOf(forecasts[2])
    /\ \E i \in 1..Len(daily) : Len(daily[i].temps) = 2

(***************************************************************************)
(* Properties of a run of main.                                            *)
(***************************************************************************)
\* The run has ended with a non-zero exit status.
Failed == pc = "exited" /\ exitCode # <<>> /\ exitCode[1] # 0

\* Nothing has been parsed, built or printed of the response.
NothingBuilt ==
    /\ stdout = <<>>
    /\ weather = <<>>
    /\ forecasts = <<>>
    /\ daily = <<>>
    /\ list = <<>>

\* The response received has one of these statuses.
StatusIn(S) == response # <<>> /\ response[1].status \in S

\* C5: with status 404 or 401, in current-weather and in forecast mode, the run
\* goes from the status check to a non-zero exit: nothing is parsed, no record
\* is built and no report is printed.
C5_FatalStatus ==
    StatusIn({404, 401}) =>
        /\ NothingBuilt
        /\ pc \in {"status", "exited"}
        /\ pc = "exited" => Failed

C5_Witness ==
    /\ StatusIn({401})
    /\ response[1].body = "ok"
    /\ args.forecast
    /\ Failed
    /\ stdout = <<>>

\* C6 as stated: with the variable absent the run ends non-zero before any
\* request; with the variable set, get_api_key returns its value.
C6_Original ==
    /\ envKey = <<>> => /\ requests = 0
                        /\ pc # "main" => Failed
    /\ (envKey # <<>> /\ pc # "main") => apiKey = envKey

\* C6, amended: with the variable absent or empty the run ends non-zero before
\* any request, in both modes; with the variable set to a non-empty value,
\* get_api_key returns that value.
C6_Amended ==
    /\ envKey \in {<<>>, <<"">>} => /\ requests = 0
                                    /\ apiKey = <<>>
                                    /\ pc # "main" => Failed
    /\ (envKey \notin {<<>>, <<"">>} /\ pc # "main") => apiKey = envKey

C6_Witness ==
    /\ envKey = <<"">>
    /\ args.forecast
    /\ Failed
    /\ requests = 0
    /\ stdout = <<>>

\* The pieces that name a unit.
UnitPieces == {"°C", "°F", "m/s", "mph"}

\* C7: for every Weather record, the metric and the imperial report have the
\* same lines and pieces but for the unit: "°C" and "m/s" in the one, "°F" and
\* "mph" in the other; the numbers are rendered alike.
C7_UnitsOnly ==
    weather # <<>> =>
        LET w == weather[1]
            m == format_weather(w, "metric")
            i == format_weather(w, "imperial")
        IN /\ Len(m) = Len(i)
           /\ \A n \in 1..Len(m) :
                 /\ Len(m[n]) = Len(i[n])
                 /\ \A k \in 1..Len(m[n]) :
                       \/ m[n][k] = i[n][k] /\ m[n][k] \notin UnitPieces
                       \/ m[n][k] = "°C" /\ i[n][k] = "°F"
                       \/ m[n][k] = "m/s" /\ i[n][k] = "mph"
           /\ m[3][3] = "°C" /\ m[3][6] = "°C" /\ m[6][4] = "m/s"
           /\ i[3][3] = "°F" /\ i[3][6] = "°F" /\ i[6][4] = "mph"
           /\ m[3][2] = (IF w.temp = 140 THEN "14.0" ELSE "-2.5")
           /\ m[3][5] = (IF w.feels_like = 140 THEN "14.0" ELSE "-2.5")
           /\ m[5][2] = "72" /\ m[6][2] = "3.5"
           /\ pc = "done" => stdout = <<format_weather(w, args.units)>>

C7_Witness ==
    /\ pc = "done"
    /\ ~args.forecast
    /\ args.units = "imperial"
    /\ weather[1].temp = -25
    /\ stdout[1][3] = <<"Temperature:  ", "-2.5", "°F", " (feels like ", "14.0", "°F", ")">>
    /\ stdout[1][6] = <<"Wind:         ", "3.5", " ", "mph">>

\* With one of these statuses the fetch fails: no record is built, no report
\* is printed, the run ends non-zero, and one request is all that is issued.
FetchFails(S) ==
    StatusIn(S) =>
        /\ NothingBuilt
        /\ requests = 1
        /\ pc \in {"done", "exited"} => Failed

\* C10 as stated: every status that is not 2xx, 404 or 401.
C10_Original == FetchFails({s \in Statuses : ~(200 <= s /\ s < 300)} \ {404, 401})

\* C10, amended: every 4xx or 5xx status other than 404 and 401 (a status below
\* 200 or a 3xx one that requests hands back is not raised: the body is parsed
\* as for 200).
C10_Amended ==
    /\ FetchFails({s \in Statuses : 400 <= s /\ s < 600} \ {404, 401})
    /\ StatusIn({s \in Statuses : 400 <= s /\ s < 600} \ {404, 401}) =>
          pc \in {"status", "raise", "exited"}

C10_Witness ==
    /\ StatusIn({403})
    /\ response[1].body = "ok"
    /\ Failed
    /\ requests = 1
    /\ stdout = <<>>

====
